---- MODULE Spec2Model ----
(***************************************************************************)
(* Model of fineGrainedSentimentAnalysis/lime_explainer.py: the METHODS    *)
(* registry, the two classifier wrappers (LogisticExplainer, SVMExplainer),*)
(* the explanation driver `explainer` and the CLI driver `main`.           *)
(*                                                                         *)
(* Calls into libraries (spaCy, pandas, scikit-learn, LIME) are steps that *)
(* either return or raise; what they compute is kept only as far as the    *)
(* script itself depends on it (table contents, shape of predict output,   *)
(* which file name is written).                                            *)
(***************************************************************************)
EXTENDS Integers, Sequences, FiniteSets, TLC

VARIABLES
    METHODS,      \* the module-level registry dict (lines 12-26)
    argMethods,   \* args.method, the list given to -m (empty: -m missing)
    numSamples,   \* len(samples) passed to main
    fileAt,       \* training files on disk: path -> rows, or FileAbsent
    pc,           \* position of the run
    mi,           \* 1-based position in args.method of the outer loop
    si,           \* i of enumerate(samples) in the inner loop
    model,        \* the wrapper built by explainer_class, or None
    probs,        \* value returned by the last predict call, or None
    reads,        \* paths handed to pd.read_csv so far, in order
    log,          \* steps performed so far, in order
    disk,         \* output directory: file name -> content, or Absent
    failedAt,     \* step that raised, when pc = "exception"
    errmsg        \* text handed to parser.error, when pc = "usage_error"

vars == <<METHODS, argMethods, numSamples, fileAt, pc, mi, si, model, probs,
          reads, log, disk, failedAt, errmsg>>

\* ------------------------------------------------------------------ bounds
MaxMethods == 2     \* longest -m list explored
MaxSamples == 2     \* longest samples list explored
MaxRows    == 2     \* longest enumerated training file
MaxPredict == 2     \* most classifier_fn calls one explanation makes
MaxTexts   == 2     \* longest list handed to predict

None == "None"

\* ---------------------------------------------------------------- registry
SSTPath == "data/sst/sst_train.txt"

MethodsInit ==
    [logistic |-> [class |-> "LogisticExplainer", file |-> SSTPath,
                   name |-> "Logistic Regression", lowercase |-> FALSE],
     svm      |-> [class |-> "SVMExplainer", file |-> SSTPath,
                   name |-> "Support Vector Machine", lowercase |-> FALSE]]

\* method_list = [method for method in METHODS.keys()]  (insertion order)
method_list == <<"logistic", "svm">>

\* names that may appear after -m: the two keys and one that is not a key
MethodNames == {"logistic", "svm", "bogus"}

\* class_names handed to LimeTextExplainer
class_names == <<1, 2, 3, 4, 5>>

\* --------------------------------------------------- dataset loader (pure)
\* Strings of the label column are sequences of one-character strings.
LabelPrefix == <<"_", "_", "l", "a", "b", "e", "l", "_", "_">>

Digits == <<"0", "1", "2", "3", "4", "5", "6", "7", "8", "9">>

DigitValue(c) == (CHOOSE d \in 1..10 : Digits[d] = c) - 1

IsDigit(c) == \E d \in 1..10 : Digits[d] = c

StartsWith(s, pat) ==
    /\ Len(s) >= Len(pat)
    /\ SubSeq(s, 1, Len(pat)) = pat

\* str.replace(pat, ''): every non-overlapping occurrence of pat, scanned
\* left to right, is removed
RECURSIVE StrReplace(_, _)
StrReplace(s, pat) ==
    IF s = <<>> THEN <<>>
    ELSE IF StartsWith(s, pat) THEN StrReplace(SubSeq(s, Len(pat) + 1, Len(s)), pat)
    ELSE <<Head(s)>> \o StrReplace(Tail(s), pat)

\* int(s) accepts a non-empty run of decimal digits; anything else raises
IsIntLiteral(s) == s # <<>> /\ \A p \in 1..Len(s) : IsDigit(s[p])

\* variant of ParseInt that reads the first digit only
ParseIntMut(s) == DigitValue(s[1])

RECURSIVE ParseInt(_)
ParseInt(s) ==
    IF Len(s) = 1 THEN DigitValue(s[1])
    ELSE 10 * ParseInt(SubSeq(s, 1, Len(s) - 1)) + DigitValue(s[Len(s)])

\* sorted sequence of the members of a finite set of integers
RECURSIVE SortedSeq(_)
SortedSeq(S) ==
    IF S = {} THEN <<>>
    ELSE LET m == CHOOSE x \in S : \A y \in S : x <= y
         IN  <<m>> \o SortedSeq(S \ {m})

\* astype('category'): the categories are the distinct values, ascending
Categories(truth) == SortedSeq({truth[r] : r \in 1..Len(truth)})

\* lines 52-55 / 94-97: does the constructor raise on these rows?
\* (astype(int) raises as soon as one stripped label is not an integer)
LoadRaises(rows) ==
    \E r \in 1..Len(rows) : ~IsIntLiteral(StrReplace(rows[r].truth, LabelPrefix))

\* lines 52-55 / 94-97: the table stored in self.train_df
LoadTable(rows) ==
    LET truth == [r \in 1..Len(rows) |->
                     ParseInt(StrReplace(rows[r].truth, LabelPrefix))]
    IN  [truth      |-> truth,
         text       |-> [r \in 1..Len(rows) |-> rows[r].text],
         categories |-> Categories(truth)]

\* ------------------------------------------------------ training-file inputs
Lbl(suffix) == LabelPrefix \o suffix

\* label fields that occur in the enumerated files: the five SST labels, a
\* two-digit label, a doubled prefix, and two fields that are not integers
LabelPool ==
    { Lbl(<<"1">>), Lbl(<<"2">>), Lbl(<<"3">>), Lbl(<<"4">>), Lbl(<<"5">>),
      Lbl(<<"1", "2">>), LabelPrefix \o Lbl(<<"2">>),
      Lbl(<<"x">>), Lbl(<<>>) }

TextPool == {"good film", "bad film"}

RowPool == [truth : LabelPool, text : TextPool]

\* every file of 1..MaxRows rows (pd.read_csv on an empty file is not modelled)
BoundedFiles == UNION { [1..n -> RowPool] : n \in 1..MaxRows }

\* a file in which all five SST labels occur
SST5File ==
    <<[truth |-> Lbl(<<"4">>), text |-> "good film"],
      [truth |-> Lbl(<<"1">>), text |-> "bad film"],
      [truth |-> Lbl(<<"3">>), text |-> "good film"],
      [truth |-> Lbl(<<"5">>), text |-> "good film"],
      [truth |-> Lbl(<<"2">>), text |-> "bad film"]>>

\* a file in which only two labels occur
TwoLabelFile ==
    <<[truth |-> Lbl(<<"2">>), text |-> "bad film"],
      [truth |-> Lbl(<<"4">>), text |-> "good film"]>>

\* a file with a label field that is not an integer
MalformedFile ==
    <<[truth |-> Lbl(<<"3">>), text |-> "good film"],
      [truth |-> Lbl(<<"x">>), text |-> "bad film"]>>

\* what is found at a path: no file, or a file of rows
FileAbsent == [exists |-> FALSE, rows |-> <<>>]

File(rows) == [exists |-> TRUE, rows |-> rows]

\* training files the runs of main are explored with
MainFiles == {FileAbsent, File(SST5File), File(TwoLabelFile), File(MalformedFile)}

\* training files the wrapper harness is explored with
WrapperFiles == {FileAbsent, File(SST5File)} \cup {File(rows) : rows \in BoundedFiles}

\* ------------------------------------------------------------ initial states
\* no wrapper is alive / predict has not returned yet
NoModel == [class |-> None, path |-> None, train_df |-> LoadTable(<<>>),
            attrs |-> {}, npredict |-> 0, nfit |-> 0]

NoProbs == [rows |-> 0, columns |-> <<>>, call |-> 0, fit |-> 0]

\* every -m list of at most MaxMethods names
ArgLists == UNION { [1..n -> MethodNames] : n \in 0..MaxMethods }

InitCommon ==
    /\ METHODS = MethodsInit
    /\ model = NoModel
    /\ probs = NoProbs
    /\ reads = <<>>
    /\ log = <<>>
    /\ disk = {}
    /\ failedAt = None
    /\ errmsg = <<>>

\* the process has started: main(samples) is about to parse its arguments
Init ==
    /\ InitCommon
    /\ argMethods \in ArgLists
    /\ numSamples \in 0..MaxSamples
    /\ fileAt \in [{SSTPath} -> MainFiles]
    /\ pc = "start"
    /\ mi = 0
    /\ si = 0

\* ------------------------------------------------------------------ helpers
method == argMethods[mi]

StepNames == <<"tokenize", "construct", "explain", "write">>

\* "{}-explanation-{}.html".format(i+1, method)
\* variant of FileName that leaves the method out of the name
FileNameMut(i, m) == <<i + 1, "-explanation-", ".html">>

FileName(i, m) == <<i + 1, "-explanation-", m, ".html">>

\* the directory after a file called name with this content is written
WriteFile(d, name, content) ==
    {f \in d : f.name # name} \cup {[name |-> name, content |-> content]}

\* a step of the pair in progress, with the name of the pair's output file
Event(step) == [m |-> mi, i |-> si, step |-> step, name |-> FileName(si, method)]

Terminal == {"done", "usage_error", "exception"}

\* ------------------------------------------------------------ main, 166-184
\* line 176: parser.parse_args(); -m is required and takes one or more names
ParseArgs ==
    /\ pc = "start"
    /\ IF argMethods = <<>>
       THEN /\ pc' = "usage_error"
            /\ errmsg' = <<"the following arguments are required: -m/--method", <<>> >>
            /\ mi' = mi
       ELSE /\ pc' = "for_method"
            /\ mi' = 1
            /\ errmsg' = errmsg
    /\ UNCHANGED <<METHODS, argMethods, numSamples, fileAt, si, model, probs,
                   reads, log, disk, failedAt>>

\* line 178: the list of methods is exhausted, main returns
MethodsExhausted ==
    /\ pc = "for_method"
    /\ mi > Len(argMethods)
    /\ pc' = "done"
    /\ UNCHANGED <<METHODS, argMethods, numSamples, fileAt, mi, si, model,
                   probs, reads, log, disk, failedAt, errmsg>>

\* lines 179-180: the method of this iteration is not a key of METHODS
UnknownMethod ==
    /\ pc = "for_method"
    /\ mi <= Len(argMethods)
    /\ method \notin DOMAIN METHODS
    /\ pc' = "usage_error"
    /\ errmsg' = <<"Please choose from the below existing methods!", method_list>>
    /\ UNCHANGED <<METHODS, argMethods, numSamples, fileAt, mi, si, model,
                   probs, reads, log, disk, failedAt>>

\* lines 179-185: the method of this iteration is a key; enter the sample loop
EnterMethod ==
    /\ pc = "for_method"
    /\ mi <= Len(argMethods)
    /\ method \in DOMAIN METHODS
    /\ si' = 0
    /\ pc' = "for_sample"
    /\ UNCHANGED <<METHODS, argMethods, numSamples, fileAt, mi, model, probs,
                   reads, log, disk, failedAt, errmsg>>

\* line 185: next sample of this method
NextSample ==
    /\ pc = "for_sample"
    /\ si < numSamples
    /\ pc' = "tokenize"
    /\ UNCHANGED <<METHODS, argMethods, numSamples, fileAt, mi, si, model,
                   probs, reads, log, disk, failedAt, errmsg>>

\* variant of EndSamples that does not advance the method loop
EndSamplesMut ==
    /\ pc = "for_sample"
    /\ si >= numSamples
    /\ mi' = mi
    /\ pc' = "for_method"
    /\ UNCHANGED <<METHODS, argMethods, numSamples, fileAt, si, model, probs,
                   reads, log, disk, failedAt, errmsg>>

\* line 185 -> 178: the samples are exhausted, go to the next method
EndSamples ==
    /\ pc = "for_sample"
    /\ si >= numSamples
    /\ mi' = mi + 1
    /\ pc' = "for_method"
    /\ UNCHANGED <<METHODS, argMethods, numSamples, fileAt, si, model, probs,
                   reads, log, disk, failedAt, errmsg>>

\* line 186: tokenizer(text) returns
Tokenize ==
    /\ pc = "tokenize"
    /\ log' = Append(log, Event("tokenize"))
    /\ pc' = "construct"
    /\ UNCHANGED <<METHODS, argMethods, numSamples, fileAt, mi, si, model,
                   probs, reads, disk, failedAt, errmsg>>

\* line 186: tokenizer(text) raises; nothing catches it
TokenizeRaises ==
    /\ pc = "tokenize"
    /\ pc' = "exception"
    /\ failedAt' = "tokenize"
    /\ UNCHANGED <<METHODS, argMethods, numSamples, fileAt, mi, si, model,
                   probs, reads, log, disk, errmsg>>

\* ------------------------------------------------- explainer, lines 131-163
\* line 138 with 38-42 and __init__: the file is there and every label casts
Construct ==
    /\ pc = "construct"
    /\ LET path == METHODS[method].file
       IN  /\ fileAt[path].exists
           /\ ~LoadRaises(fileAt[path].rows)
           /\ reads' = Append(reads, path)
           /\ model' = [class    |-> METHODS[method].class,
                        path     |-> path,
                        train_df |-> LoadTable(fileAt[path].rows),
                        attrs    |-> {"train_df"},
                        npredict |-> 0,
                        nfit     |-> 0]
    /\ probs' = NoProbs
    /\ log' = Append(log, Event("construct"))
    /\ pc' = "explain"
    /\ UNCHANGED <<METHODS, argMethods, numSamples, fileAt, mi, si, disk,
                   failedAt, errmsg>>

\* line 138: pd.read_csv finds no file, or astype(int) rejects a label
ConstructRaises ==
    /\ pc = "construct"
    /\ LET path == METHODS[method].file
       IN  /\ \/ ~fileAt[path].exists
              \/ LoadRaises(fileAt[path].rows)
           /\ reads' = Append(reads, path)
    /\ pc' = "exception"
    /\ failedAt' = "construct"
    /\ UNCHANGED <<METHODS, argMethods, numSamples, fileAt, mi, si, model,
                   probs, log, disk, errmsg>>

\* lines 57-76 / 99-120: train() fits a new pipeline on the stored table;
\* the fitted pipeline knows the classes of the truth column, ascending
Train(w) == [fit |-> w.nfit + 1, classes |-> w.train_df.categories]

\* classifier.predict_proba(texts): one row per text, one column per class
PredictProba(classifier, ntexts, call) ==
    [rows |-> ntexts, columns |-> classifier.classes, call |-> call,
     fit |-> classifier.fit]

\* variant of Predict that keeps the fitted pipeline on the wrapper and
\* reuses it on later calls
PredictCached ==
    /\ pc = "explain"
    /\ model.npredict < MaxPredict
    /\ \E ntexts \in 0..MaxTexts :
         LET classifier == IF "classifier" \in model.attrs
                           THEN [fit |-> model.nfit,
                                 classes |-> model.train_df.categories]
                           ELSE Train(model)
         IN  /\ probs' = PredictProba(classifier, ntexts, model.npredict + 1)
             /\ model' = [model EXCEPT !.npredict = @ + 1,
                                       !.nfit = classifier.fit,
                                       !.attrs = @ \cup {"classifier"}]
    /\ UNCHANGED <<METHODS, argMethods, numSamples, fileAt, pc, mi, si,
                   reads, log, disk, failedAt, errmsg>>

\* variant of Predict whose training empties the stored table
PredictDropsRows ==
    /\ pc = "explain"
    /\ model.npredict < MaxPredict
    /\ \E ntexts \in 0..MaxTexts :
         LET classifier == Train(model)
         IN  /\ probs' = PredictProba(classifier, ntexts, model.npredict + 1)
             /\ model' = [model EXCEPT !.npredict = @ + 1,
                                       !.nfit = classifier.fit,
                                       !.train_df = LoadTable(<<>>)]
    /\ UNCHANGED <<METHODS, argMethods, numSamples, fileAt, pc, mi, si,
                   reads, log, disk, failedAt, errmsg>>

\* variant of Predict that reads the training file again on every call
PredictRereads ==
    /\ pc = "explain"
    /\ model.npredict < MaxPredict
    /\ \E ntexts \in 0..MaxTexts :
         LET classifier == Train(model)
         IN  /\ probs' = PredictProba(classifier, ntexts, model.npredict + 1)
             /\ model' = [model EXCEPT !.npredict = @ + 1,
                                       !.nfit = classifier.fit]
    /\ reads' = Append(reads, model.path)
    /\ UNCHANGED <<METHODS, argMethods, numSamples, fileAt, pc, mi, si,
                   log, disk, failedAt, errmsg>>

\* lines 78-83 / 122-127, called by explain_instance as classifier_fn
Predict ==
    /\ pc = "explain"
    /\ model.npredict < MaxPredict
    /\ \E ntexts \in 0..MaxTexts :
         LET classifier == Train(model)
         IN  /\ probs' = PredictProba(classifier, ntexts, model.npredict + 1)
             /\ model' = [model EXCEPT !.npredict = @ + 1,
                                       !.nfit = classifier.fit]
    /\ UNCHANGED <<METHODS, argMethods, numSamples, fileAt, pc, mi, si,
                   reads, log, disk, failedAt, errmsg>>

\* variant of ExplainRaises that removes the files written so far
ExplainRaisesCleansUp ==
    /\ pc = "explain"
    /\ \E stage \in {"train", "predict_proba", "explain_instance"} :
         failedAt' = stage
    /\ pc' = "exception"
    /\ disk' = {}
    /\ UNCHANGED <<METHODS, argMethods, numSamples, fileAt, mi, si, model,
                   probs, reads, log, errmsg>>

\* lines 145-163: pipeline.fit, predict_proba or explain_instance raises
ExplainRaises ==
    /\ pc = "explain"
    /\ \E stage \in {"train", "predict_proba", "explain_instance"} :
         failedAt' = stage
    /\ pc' = "exception"
    /\ UNCHANGED <<METHODS, argMethods, numSamples, fileAt, mi, si, model,
                   probs, reads, log, disk, errmsg>>

\* line 163: explain_instance returns exp; model and predictor go out of scope
Explain ==
    /\ pc = "explain"
    /\ log' = Append(log, Event("explain"))
    /\ model' = NoModel
    /\ probs' = NoProbs
    /\ pc' = "save"
    /\ UNCHANGED <<METHODS, argMethods, numSamples, fileAt, mi, si, reads,
                   disk, failedAt, errmsg>>

\* ------------------------------------------------------------ main, 190-191
\* exp.save_to_file(output_filename) returns; the inner loop advances
Save ==
    /\ pc = "save"
    /\ disk' = WriteFile(disk, FileName(si, method),
                         [by |-> <<mi, si>>, kind |-> "html"])
    /\ log' = Append(log, Event("write"))
    /\ si' = si + 1
    /\ pc' = "for_sample"
    /\ UNCHANGED <<METHODS, argMethods, numSamples, fileAt, mi, model, probs,
                   reads, failedAt, errmsg>>

\* exp.save_to_file raises: either before the file was opened for writing
\* or after, and then what was opened stays behind, incomplete
SaveRaises ==
    /\ pc = "save"
    /\ \E opened \in BOOLEAN :
         disk' = IF opened
                 THEN WriteFile(disk, FileName(si, method),
                                [by |-> <<mi, si>>, kind |-> "partial"])
                 ELSE disk
    /\ pc' = "exception"
    /\ failedAt' = "save"
    /\ UNCHANGED <<METHODS, argMethods, numSamples, fileAt, mi, si, model,
                   probs, reads, log, errmsg>>

\* -------------------------------------------------------------- the program
Next ==
    \/ ParseArgs
    \/ MethodsExhausted
    \/ UnknownMethod
    \/ EnterMethod
    \/ NextSample
    \/ EndSamples
    \/ Tokenize
    \/ TokenizeRaises
    \/ Construct
    \/ ConstructRaises
    \/ Predict
    \/ ExplainRaises
    \/ Explain
    \/ Save
    \/ SaveRaises

Spec == Init /\ [][Next]_vars

\* ------------------------------------------------------- the wrapper harness
\* a caller builds one wrapper for a method of the registry from the file at
\* the registry's path and calls predict on it some number of times
InitWrapper ==
    /\ InitCommon
    /\ argMethods \in {<<"logistic">>, <<"svm">>}
    /\ numSamples = 1
    /\ fileAt \in [{SSTPath} -> WrapperFiles]
    /\ pc = "construct"
    /\ mi = 1
    /\ si = 0

NextWrapper ==
    \/ Construct
    \/ ConstructRaises
    \/ Predict

SpecWrapper == InitWrapper /\ [][NextWrapper]_vars

\* =================================================================== claims
MaxLabel == 12      \* largest integer label the loader claim ranges over

\* the -m list holds a name that is not a key of the registry
ContainsUnknown ==
    \E a \in 1..Len(argMethods) : argMethods[a] \notin {"logistic", "svm"}

WriteEvents == {p \in DOMAIN log : log[p].step = "write"}

\* "{i+1}-explanation-{m}.html", spelled out
ExpectedName(i, m) == <<i + 1, "-explanation-", m, ".html">>

\* C1: a run whose -m list holds an unknown name ends in the usage error that
\* lists the valid method names, never in another outcome.
C1_UnknownEndsInUsageError ==
    (ContainsUnknown /\ pc \in Terminal)
        => (pc = "usage_error" /\ errmsg[2] = <<"logistic", "svm">>)

\* C2: a run of valid methods that completes has written exactly once per
\* (position in the -m list, sample index), each time to
\* "{i+1}-explanation-{m}.html", and the files on disk are exactly those names.
C2_OneFilePerPair ==
    pc = "done" =>
        /\ \A a \in 1..Len(argMethods) : \A i \in 0..(numSamples - 1) :
             Cardinality({p \in WriteEvents : log[p].m = a /\ log[p].i = i}) = 1
        /\ \A p \in WriteEvents :
             /\ log[p].m \in 1..Len(argMethods)
             /\ log[p].i \in 0..(numSamples - 1)
             /\ log[p].name = ExpectedName(log[p].i, argMethods[log[p].m])
        /\ {f.name : f \in disk} =
             {ExpectedName(i, argMethods[a]) :
                  a \in 1..Len(argMethods), i \in 0..(numSamples - 1)}
        /\ \A f \in disk : f.content.kind = "html"

\* two samples, the same method given twice: four writes, two files
C2_Witness ==
    /\ pc = "done"
    /\ numSamples = 2
    /\ Len(argMethods) = 2
    /\ argMethods[1] = argMethods[2]
    /\ Cardinality(WriteEvents) = 4
    /\ Cardinality(disk) = 2

StepRank(step) == CHOOSE r \in 1..4 : StepNames[r] = step

\* step e belongs to an earlier pair than f, or to the same pair and is an
\* earlier step of it
Precedes(e, f) ==
    \/ e.m < f.m
    \/ e.m = f.m /\ e.i < f.i
    \/ e.m = f.m /\ e.i = f.i /\ StepRank(e.step) < StepRank(f.step)

\* C3: the steps happen in the order of the pairs, method loop outer and
\* sample loop inner: every step performed earlier precedes every step
\* performed later, and no performed step is of a pair after the current one.
C3_StrictlySequential ==
    /\ \A p, q \in DOMAIN log : p < q => Precedes(log[p], log[q])
    /\ \A p \in DOMAIN log :
         \/ log[p].m < mi
         \/ log[p].m = mi /\ log[p].i <= si

\* a completed run over two methods and two samples
C3_Witness ==
    /\ pc = "done"
    /\ \E p, q \in DOMAIN log : log[p].m = 1 /\ log[q].m = 2
    /\ \E p, q \in DOMAIN log : log[p].m = 2 /\ log[q].m = 2
                                   /\ log[p].i = 0 /\ log[q].i = 1

\* C4 as stated: once a step of a pair raises nothing more happens, and the
\* raising step leaves the output directory as it was (no file for the
\* failing pair, the earlier files unchanged).
C4_FailureLeavesDiskAsItWas ==
    [][ /\ pc # "exception"
        /\ pc' = "exception" => (log' = log /\ disk' = disk) ]_vars

\* C4 as amended: once a step of a pair raises nothing more happens; the
\* raising step performs no step of any pair, writes no complete file, and
\* leaves every file under another name than the failing pair's as it was;
\* only a raising file write changes the directory at all (it may leave the
\* failing pair's file behind incomplete).
C4_FailureStopsRun ==
    [][ /\ pc # "exception"
        /\ pc' = "exception" =>
             /\ log' = log
             /\ \A f \in disk' : f.content.kind = "html" => f \in disk
             /\ \A f \in disk : f.name # FileName(si, method) => f \in disk'
             /\ \A f \in disk' : f.name # FileName(si, method) => f \in disk
             /\ failedAt' # "save" => disk' = disk ]_vars

\* the write of a later pair raised after the file was opened, while the file
\* of an earlier pair is on disk
C4_Witness ==
    /\ pc = "exception"
    /\ failedAt = "save"
    /\ \E f \in disk : f.content.kind = "partial"
    /\ \E f \in disk : f.content.kind = "html"

\* C5: on one wrapper, as many fits have happened as predict calls, the
\* probabilities of the j-th call come from the j-th fit, and the wrapper
\* holds nothing but its table.
C5_PredictRetrains ==
    /\ model.nfit = model.npredict
    /\ probs.fit = probs.call
    /\ model.class # None => model.attrs = {"train_df"}

C5_Witness ==
    /\ model.class # None
    /\ model.npredict >= 2
    /\ probs.call = model.npredict

\* C6: what predict returns has one row per text and exactly the five
\* columns 1,2,3,4,5 declared as class_names.
C6_PredictShape ==
    probs.call > 0 => probs.columns = class_names

\* the number k written in decimal
RECURSIVE DecimalDigits(_)
DecimalDigits(k) ==
    IF k < 10 THEN <<Digits[k + 1]>>
    ELSE DecimalDigits(k \div 10) \o <<Digits[(k % 10) + 1]>>

\* C7: in the table of a constructed wrapper, a row whose label field is
\* "__label__" followed by the decimal digits of k has truth k, the text
\* column is as read, and the categories are exactly the labels that occur.
C7_LoaderParsesLabels ==
    pc = "explain" =>
        LET rows == fileAt[model.path].rows
            df   == model.train_df
        IN  /\ Len(df.truth) = Len(rows)
            /\ Len(df.text) = Len(rows)
            /\ \A r \in 1..Len(rows) :
                 /\ df.text[r] = rows[r].text
                 /\ \A k \in 0..MaxLabel :
                      rows[r].truth = LabelPrefix \o DecimalDigits(k)
                          => df.truth[r] = k
            /\ {df.categories[c] : c \in 1..Len(df.categories)} =
                 {df.truth[r] : r \in 1..Len(rows)}
            /\ (\A r \in 1..Len(rows) : \E k \in 0..MaxLabel :
                     rows[r].truth = LabelPrefix \o DecimalDigits(k))
                 => {df.categories[c] : c \in 1..Len(df.categories)} =
                      {k \in 0..MaxLabel :
                           \E r \in 1..Len(rows) :
                               rows[r].truth = LabelPrefix \o DecimalDigits(k)}

\* a file with "__label__3" and a two-digit label, loaded
C7_Witness ==
    /\ pc = "explain"
    /\ \E r, t \in 1..Len(fileAt[model.path].rows) :
         /\ fileAt[model.path].rows[r].truth = Lbl(<<"3">>)
         /\ model.train_df.truth[r] = 3
         /\ fileAt[model.path].rows[t].truth = Lbl(<<"1", "2">>)
         /\ model.train_df.truth[t] = 12

\* C8: the registry always equals its initial value, and the table of a live
\* wrapper always equals the table its constructor loaded.
C8_NothingMutated ==
    /\ METHODS = MethodsInit
    /\ model.class # None => model.train_df = LoadTable(fileAt[model.path].rows)

\* a wrapper of a second pair after two predict calls
C8_Witness ==
    /\ model.class # None
    /\ model.npredict >= 2
    /\ WriteEvents # {}
    /\ Len(model.train_df.truth) > 0

\* C9: in a run whose -m list holds an unknown name nothing is tokenized,
\* read, trained or written.
C9_ValidationPrecedesWork ==
    ContainsUnknown =>
        /\ log = <<>>
        /\ reads = <<>>
        /\ disk = {}
        /\ model = NoModel
        /\ pc \notin {"tokenize", "construct", "explain", "save"}

Completed == Cardinality(WriteEvents)

\* C10: the wrapper of a pair is of the class and file the registry names for
\* the pair's method, it is built once per pair, and the training file is
\* read once per pair whatever the number of predict calls: after p completed
\* pairs there were p reads.
C10_OneReadPerPair ==
    /\ pc = "explain" =>
         /\ method = "logistic" => model.class = "LogisticExplainer"
         /\ method = "svm" => model.class = "SVMExplainer"
         /\ model.path = MethodsInit[method].file
         /\ reads[Len(reads)] = model.path
    /\ \A p, q \in DOMAIN log :
         (log[p].step = "construct" /\ log[q].step = "construct"
             /\ log[p].m = log[q].m /\ log[p].i = log[q].i) => p = q
    /\ pc \in {"start", "for_method", "for_sample", "tokenize", "construct",
               "done", "usage_error"} => Len(reads) = Completed
    /\ pc \in {"explain", "save"} => Len(reads) = Completed + 1
    /\ pc = "exception" =>
         Len(reads) = (IF failedAt = "tokenize" THEN Completed ELSE Completed + 1)

\* the second pair's wrapper after two predict calls
C10_Witness ==
    /\ pc = "explain"
    /\ model.npredict >= 2
    /\ Completed >= 1
    /\ Len(reads) = Completed + 1

====
